---- MODULE Spec2Model ----
(***************************************************************************)
(* Recipe service (src/database.py, src/schemas.py, src/routes.py): the    *)
(* two tables, the get_db scoped session and the three endpoints, each     *)
(* endpoint split at its storage awaits.  A slot is one in-flight request  *)
(* with its own AsyncSession.  A storage call may fail (parameter ok).      *)
(* The write transaction of a session holds SQLite's single writer lock    *)
(* from its first INSERT to its COMMIT or ROLLBACK.  session.rollback()    *)
(* and session.close() are taken not to fail.                              *)
(***************************************************************************)
EXTENDS Integers, Sequences, FiniteSets, TLC

\* ---- bounds of the model
NumSlots == 2
MaxId == 2
MaxViews == 2
MaxSkip == 1
MaxLimit == 2

\* ---- limits of the request contract (src/schemas.py)
TitleMax == 255
NameMax == 255
QuantityMax == 100
DescriptionMin == 10

Slots == 1..NumSlots
Ids == 1..MaxId
\* ids a detail read may ask for: the possible rows and one id never created
GetIds == 1..(MaxId + 1)

VARIABLES
    recipes,      \* committed rows of table "recipes"
    ingredients,  \* committed rows of table "ingredients"
    tie,          \* the engine's order among rows with equal ORDER BY keys
    pc,           \* per slot: where the request is
    open,         \* per slot: the AsyncSession of get_db is open
    req,          \* per slot: the request being served
    obj,          \* per slot: the Recipe instance the handler holds
    tx,           \* per slot: rows flushed but not committed
    resp,         \* per slot: the outcome of the request
    events,       \* per slot: what get_db did once the handler left the scope
    snap,         \* history: the store as the request in flight found it
    unread,       \* history: recipes created and not fetched since, with their input
    streak,       \* history: the current run of successful detail reads of a recipe
    listed        \* history: the previous listing, while nothing has been written since

prog == <<recipes, ingredients, tie, pc, open, req, obj, tx, resp, events>>
hist == <<snap, unread, streak, listed>>
vars == <<prog, hist>>

\* ---------------------------------------------------------------- inputs

Salt == [name |-> "Salt", quantity |-> "1 tsp"]
Beet == [name |-> "Beet", quantity |-> "2 pcs"]
NoName == [name |-> "", quantity |-> "1 tsp"]
LongDescription == "Traditional soup with beets and cabbage"

Borscht == [title |-> "Borscht", cooking_time |-> 60,
            description |-> LongDescription, ingredients |-> <<Salt, Beet>>]
Toast == [title |-> "Toast", cooking_time |-> 5,
          description |-> "Bread, browned on both sides", ingredients |-> << >>]

\* one input for each way the contract can be violated
InvalidInputs ==
    { [Borscht EXCEPT !.description = "short"],
      [Borscht EXCEPT !.cooking_time = 0],
      [Borscht EXCEPT !.title = ""],
      [Toast EXCEPT !.ingredients = <<NoName>>] }

RecipeInputs == {Borscht, Toast} \cup InvalidInputs

\* ---------------------------------------------------------------- schemas

IngredientValid(i) ==
    /\ Len(i.name) >= 1 /\ Len(i.name) <= NameMax
    /\ Len(i.quantity) >= 1 /\ Len(i.quantity) <= QuantityMax

RecipeBaseValid(r) ==
    /\ Len(r.title) >= 1 /\ Len(r.title) <= TitleMax
    /\ r.cooking_time > 0
    /\ Len(r.description) >= DescriptionMin

RecipeCreateValid(r) ==
    /\ RecipeBaseValid(r)
    /\ \A k \in 1..Len(r.ingredients) : IngredientValid(r.ingredients[k])

IngredientResponse(i) == [id |-> i.id, name |-> i.name, quantity |-> i.quantity]

RecipeListResponse(r) ==
    [id |-> r.id, title |-> r.title, cooking_time |-> r.cooking_time,
     views |-> r.views]

RecipeDetailResponse(o) ==
    [id |-> o.id, title |-> o.title, cooking_time |-> o.cooking_time,
     description |-> o.description, views |-> o.views,
     ingredients |-> [k \in 1..Len(o.ingredients) |->
                         IngredientResponse(o.ingredients[k])]]

\* RecipeDetailResponse.model_validate: the output contract extends RecipeBase
RecipeDetailValid(o) ==
    /\ RecipeBaseValid(o)
    /\ \A k \in 1..Len(o.ingredients) : IngredientValid(o.ingredients[k])

\* ---------------------------------------------------------------- tables

RowIds(rows) == {r.id : r \in rows}

RowById(rows, id) == CHOOSE r \in rows : r.id = id

MaxOf(S) == CHOOSE m \in S : \A n \in S : n <= m

\* INTEGER PRIMARY KEY without AUTOINCREMENT: the largest id in use plus one
NextId(rows) == IF rows = {} THEN 1 ELSE MaxOf(RowIds(rows)) + 1

RECURSIVE ById(_)
ById(rows) ==
    IF rows = {} THEN << >>
    ELSE LET r == CHOOSE x \in rows : \A y \in rows : x.id <= y.id
         IN  <<r>> \o ById(rows \ {r})

Store == [recipes |-> recipes, ingredients |-> ingredients]

EmptyTx == [recipes |-> {}, ingredients |-> {}]

NoObj == [id |-> 0]
NoReq == [op |-> "none"]
NoResp == [status |-> 0]
NoSnap == [none |-> TRUE]
NoStreak == [id |-> 0]
NoList == [none |-> TRUE]

\* the Recipe instance as a SELECT with selectinload(Recipe.ingredients) fills it
LoadRecipe(id) ==
    LET r == RowById(recipes, id)
    IN  [id |-> r.id, title |-> r.title, cooking_time |-> r.cooking_time,
         description |-> r.description, views |-> r.views,
         ingredients |-> ById({i \in ingredients : i.recipe_id = id})]

\* another session holds the writer lock
Locked(s) == \E t \in Slots \ {s} : tx[t] # EmptyTx

Quiescent == \A s \in Slots : pc[s] = "idle"

\* ORDER BY leaves the order among rows with equal keys to the engine: it is
\* a function of the database contents, so it may change when they change
Ties == {f \in [Ids -> Ids] : \A a, b \in Ids : f[a] = f[b] => a = b}

\* ---------------------------------------------------------------- listing

\* variant: the listing ordered by views ascending
BeforeAscending(a, b) ==
    \/ a.views < b.views
    \/ a.views = b.views /\ a.cooking_time < b.cooking_time
    \/ a.views = b.views /\ a.cooking_time = b.cooking_time
                         /\ tie[a.id] < tie[b.id]

Before(a, b) ==
    \/ a.views > b.views
    \/ a.views = b.views /\ a.cooking_time < b.cooking_time
    \/ a.views = b.views /\ a.cooking_time = b.cooking_time
                         /\ tie[a.id] < tie[b.id]

RECURSIVE Ordered(_)
Ordered(rows) ==
    IF rows = {} THEN << >>
    ELSE LET r == CHOOSE x \in rows : \A y \in rows \ {x} : Before(x, y)
         IN  <<r>> \o Ordered(rows \ {r})

Min2(a, b) == IF a <= b THEN a ELSE b

OffsetLimit(seq, skip, limit) ==
    SubSeq(seq, skip + 1, Min2(Len(seq), skip + limit))

ListQuery(rows, skip, limit) ==
    LET page == OffsetLimit(Ordered(rows), skip, limit)
    IN  [k \in 1..Len(page) |-> RecipeListResponse(page[k])]

\* a storage error that left the handler at `stage`
Failure(stage) == [status |-> 500, stage |-> stage]

\* variant: the 404 names another id than the one asked for
NotFoundOther(id) == [status |-> 404, id |-> id + 1]

\* lines 140-143: HTTPException(404, detail naming recipe_id)
NotFound(id) == [status |-> 404, id |-> id]

\* variants: a detail read that counts twice, and one that does not count
IncrementedTwice(o) == [o EXCEPT !.views = o.views + 2]
NotIncremented(o) == o

\* line 146: recipe.views += 1, on the instance as it was loaded
Incremented(o) == [o EXCEPT !.views = o.views + 1]

\* lines 177-182: Recipe(title, cooking_time, description, views=0)
NewRecipe(id, input) ==
    [id |-> id, title |-> input.title, cooking_time |-> input.cooking_time,
     description |-> input.description, views |-> 0]

\* variant: the ingredient stored with name and quantity exchanged
SwappedIngredient(id, i, recipe_id) ==
    [id |-> id, name |-> i.quantity, quantity |-> i.name, recipe_id |-> recipe_id]

\* lines 190-194: Ingredient(name, quantity, recipe_id=new_recipe.id)
NewIngredient(id, i, recipe_id) ==
    [id |-> id, name |-> i.name, quantity |-> i.quantity, recipe_id |-> recipe_id]

\* ---------------------------------------------------------------- Init

Init ==
    /\ recipes = {}
    /\ ingredients = {}
    /\ tie \in Ties
    /\ pc = [s \in Slots |-> "idle"]
    /\ open = [s \in Slots |-> FALSE]
    /\ req = [s \in Slots |-> NoReq]
    /\ obj = [s \in Slots |-> NoObj]
    /\ tx = [s \in Slots |-> EmptyTx]
    /\ resp = [s \in Slots |-> NoResp]
    /\ events = [s \in Slots |-> << >>]
    /\ snap = NoSnap
    /\ unread = {}
    /\ streak = NoStreak
    /\ listed = NoList

\* the handler of slot s raises r: the error travels to get_db's except clause
Raise(s, r) ==
    /\ pc' = [pc EXCEPT ![s] = "raised"]
    /\ resp' = [resp EXCEPT ![s] = r]
    /\ obj' = [obj EXCEPT ![s] = NoObj]

\* the handler of slot s returns r
Return(s, r) ==
    /\ pc' = [pc EXCEPT ![s] = "returned"]
    /\ resp' = [resp EXCEPT ![s] = r]
    /\ obj' = [obj EXCEPT ![s] = NoObj]

\* Depends(get_db): the request of slot s gets a session of its own
Enter(s, r) ==
    /\ pc[s] = "idle"
    /\ open' = [open EXCEPT ![s] = TRUE]
    /\ req' = [req EXCEPT ![s] = r]

\* In the actions below, ok says whether the storage call of the step
\* succeeds as far as the storage itself is concerned.

\* ---------------------------------------------------------------- GET /recipes

\* variant: a listing that counts a view of every recipe there is
ListCountsViews(s, skip, limit, ok) ==
    /\ Enter(s, [op |-> "list", skip |-> skip, limit |-> limit])
    /\ Return(s, [status |-> 200, items |-> ListQuery(recipes, skip, limit)])
    /\ recipes' = {IF r.views < MaxViews THEN Incremented(r) ELSE r : r \in recipes}
    /\ UNCHANGED <<ingredients, tie, tx, events>>

get_all_recipes(s, skip, limit, ok) ==
    /\ Enter(s, [op |-> "list", skip |-> skip, limit |-> limit])
    /\ IF ok
       THEN Return(s, [status |-> 200, items |-> ListQuery(recipes, skip, limit)])
       ELSE Raise(s, Failure("execute"))
    /\ UNCHANGED <<recipes, ingredients, tie, tx, events>>

\* ---------------------------------------------------------------- GET /recipes/{id}

\* lines 129-143: the SELECT, and the 404 when it finds no row
get_recipe_select(s, id, ok) ==
    /\ Enter(s, [op |-> "get", id |-> id])
    /\ \A r \in recipes : r.id = id => r.views < MaxViews
    /\ IF ~ok THEN Raise(s, Failure("execute"))
       ELSE IF id \notin RowIds(recipes) THEN Raise(s, NotFound(id))
       ELSE /\ pc' = [pc EXCEPT ![s] = "get_loaded"]
            /\ obj' = [obj EXCEPT ![s] = LoadRecipe(id)]
            /\ resp' = resp
    /\ UNCHANGED <<recipes, ingredients, tie, tx, events>>

\* lines 146-147: recipe.views += 1 on the loaded instance, then commit, whose
\* flush is UPDATE recipes SET views = <new value> WHERE id = <id>; a row
\* that is gone makes the flush raise
get_recipe_commit(s, ok) ==
    /\ pc[s] = "get_loaded"
    /\ ok => ~Locked(s)
    /\ IF ok /\ obj[s].id \in RowIds(recipes)
       THEN /\ recipes' = {IF r.id = obj[s].id
                           THEN [r EXCEPT !.views = Incremented(obj[s]).views]
                           ELSE r : r \in recipes}
            /\ tie' \in Ties
            /\ obj' = [obj EXCEPT ![s] = Incremented(obj[s])]
            /\ pc' = [pc EXCEPT ![s] = "get_committed"]
            /\ resp' = resp
       ELSE /\ Raise(s, Failure("commit"))
            /\ UNCHANGED <<recipes, tie>>
    /\ UNCHANGED <<ingredients, open, req, tx, events>>

\* lines 148-151: refresh reloads the instance from its row, then the
\* instance is mapped to the output contract
get_recipe_refresh(s, ok) ==
    /\ pc[s] = "get_committed"
    /\ IF ok /\ obj[s].id \in RowIds(recipes)
             /\ RecipeDetailValid(LoadRecipe(obj[s].id))
       THEN Return(s, [status |-> 200,
                       body |-> RecipeDetailResponse(LoadRecipe(obj[s].id))])
       ELSE Raise(s, Failure("refresh"))
    /\ UNCHANGED <<recipes, ingredients, tie, open, req, tx, events>>

\* ---------------------------------------------------------------- POST /recipes

\* the body fails the RecipeCreate contract: the handler is not entered
create_recipe_rejected(s, input) ==
    /\ Enter(s, [op |-> "create", input |-> input])
    /\ ~RecipeCreateValid(input)
    /\ Raise(s, [status |-> 422])
    /\ UNCHANGED <<recipes, ingredients, tie, tx, events>>

\* lines 177-186: the Recipe with views = 0 is added and flushed, which
\* INSERTs its row in the session's transaction and gives it its id
create_recipe_flush(s, input, ok) ==
    /\ Enter(s, [op |-> "create", input |-> input])
    /\ RecipeCreateValid(input)
    /\ NextId(recipes) <= MaxId
    /\ ok => ~Locked(s)
    /\ IF ok
       THEN /\ tx' = [tx EXCEPT ![s] =
                        [recipes |-> {NewRecipe(NextId(recipes), input)},
                         ingredients |-> {}]]
            /\ obj' = [obj EXCEPT ![s] = [id |-> NextId(recipes)]]
            /\ pc' = [pc EXCEPT ![s] = "create_flushed"]
            /\ resp' = resp
       ELSE /\ Raise(s, Failure("flush"))
            /\ tx' = tx
    /\ UNCHANGED <<recipes, ingredients, tie, events>>

\* lines 189-198: the flush that commit starts INSERTs the ingredients, in
\* the order they were added, each with recipe_id = new_recipe.id
create_recipe_insert(s, ok) ==
    /\ pc[s] = "create_flushed"
    /\ Cardinality(tx[s].ingredients) < Len(req[s].input.ingredients)
    /\ IF ok
       THEN /\ tx' = [tx EXCEPT ![s].ingredients = @ \cup
                        {NewIngredient(
                            NextId(ingredients \cup tx[s].ingredients),
                            req[s].input.ingredients[
                                Cardinality(tx[s].ingredients) + 1],
                            obj[s].id)}]
            /\ UNCHANGED <<pc, resp, obj>>
       ELSE /\ Raise(s, [status |-> 500, stage |-> "ingredient",
                         inserted |-> Cardinality(tx[s].ingredients)])
            /\ tx' = tx
    /\ UNCHANGED <<recipes, ingredients, tie, open, req, events>>

\* line 198: COMMIT makes the rows of the transaction the stored ones
create_recipe_commit(s, ok) ==
    /\ pc[s] = "create_flushed"
    /\ Cardinality(tx[s].ingredients) = Len(req[s].input.ingredients)
    /\ IF ok
       THEN /\ recipes' = recipes \cup tx[s].recipes
            /\ ingredients' = ingredients \cup tx[s].ingredients
            /\ tie' \in Ties
            /\ tx' = [tx EXCEPT ![s] = EmptyTx]
            /\ pc' = [pc EXCEPT ![s] = "create_committed"]
            /\ UNCHANGED <<resp, obj>>
       ELSE /\ Raise(s, Failure("commit"))
            /\ UNCHANGED <<recipes, ingredients, tie, tx>>
    /\ UNCHANGED <<open, req, events>>

\* lines 199-205: both refreshes reload the instance and its ingredients,
\* then the instance is mapped to the output contract
create_recipe_refresh(s, ok) ==
    /\ pc[s] = "create_committed"
    /\ IF ok /\ obj[s].id \in RowIds(recipes)
             /\ RecipeDetailValid(LoadRecipe(obj[s].id))
       THEN Return(s, [status |-> 201,
                       body |-> RecipeDetailResponse(LoadRecipe(obj[s].id))])
       ELSE Raise(s, Failure("refresh"))
    /\ UNCHANGED <<recipes, ingredients, tie, open, req, tx, events>>

\* ---------------------------------------------------------------- get_db

\* line 82: the handler returned, the session commits what is pending
ScopeCommit(s, ok) ==
    /\ pc[s] = "returned"
    /\ ok => ~Locked(s)
    /\ IF ok
       THEN /\ recipes' = recipes \cup tx[s].recipes
            /\ ingredients' = ingredients \cup tx[s].ingredients
            /\ tie' \in IF tx[s] = EmptyTx THEN {tie} ELSE Ties
            /\ tx' = [tx EXCEPT ![s] = EmptyTx]
            /\ pc' = [pc EXCEPT ![s] = "closing"]
            /\ events' = [events EXCEPT ![s] = <<"returned", "commit">>]
            /\ UNCHANGED <<resp, obj>>
       ELSE /\ Raise(s, Failure("scope_commit"))
            /\ events' = [events EXCEPT ![s] = <<"returned", "commit_failed">>]
            /\ UNCHANGED <<recipes, ingredients, tie, tx>>
    /\ UNCHANGED <<open, req>>

\* variant: the except clause commits what is pending instead of discarding it
RollbackCommits(s) ==
    /\ pc[s] = "raised"
    /\ recipes' = recipes \cup tx[s].recipes
    /\ ingredients' = ingredients \cup tx[s].ingredients
    /\ tx' = [tx EXCEPT ![s] = EmptyTx]
    /\ events' = [events EXCEPT ![s] =
          (IF events[s] = << >> THEN <<"raised">> ELSE events[s])
              \o <<"rollback", "raise">>]
    /\ pc' = [pc EXCEPT ![s] = "closing"]
    /\ UNCHANGED <<tie, open, req, obj, resp>>

\* lines 83-85: an error left the handler (or line 82): rollback, then raise
ScopeRollback(s) ==
    /\ pc[s] = "raised"
    /\ tx' = [tx EXCEPT ![s] = EmptyTx]
    /\ events' = [events EXCEPT ![s] =
          (IF events[s] = << >> THEN <<"raised">> ELSE events[s])
              \o <<"rollback", "raise">>]
    /\ pc' = [pc EXCEPT ![s] = "closing"]
    /\ UNCHANGED <<recipes, ingredients, tie, open, req, obj, resp>>

\* variant: the scope ends and the session stays open
CloseKeepsOpen(s) ==
    /\ pc[s] = "closing"
    /\ pc' = [pc EXCEPT ![s] = "idle"]
    /\ req' = [req EXCEPT ![s] = NoReq]
    /\ obj' = [obj EXCEPT ![s] = NoObj]
    /\ resp' = [resp EXCEPT ![s] = NoResp]
    /\ events' = [events EXCEPT ![s] = << >>]
    /\ UNCHANGED <<recipes, ingredients, tie, tx, open>>

\* lines 86-87 and the end of the async with: the session is closed, what it
\* still holds is discarded, and the response leaves
ScopeClose(s) ==
    /\ pc[s] = "closing"
    /\ tx' = [tx EXCEPT ![s] = EmptyTx]
    /\ open' = [open EXCEPT ![s] = FALSE]
    /\ pc' = [pc EXCEPT ![s] = "idle"]
    /\ req' = [req EXCEPT ![s] = NoReq]
    /\ obj' = [obj EXCEPT ![s] = NoObj]
    /\ resp' = [resp EXCEPT ![s] = NoResp]
    /\ events' = [events EXCEPT ![s] = << >>]
    /\ UNCHANGED <<recipes, ingredients, tie>>

\* ---------------------------------------------------------------- deletion

\* variant: the relationship without its cascade
DeleteWithoutCascade(id) ==
    /\ id \in RowIds(recipes)
    /\ \A s \in Slots : tx[s] = EmptyTx
    /\ recipes' = {r \in recipes : r.id # id}
    /\ tie' \in Ties
    /\ UNCHANGED <<ingredients, pc, open, req, obj, tx, resp, events>>

\* session.delete(recipe) and commit: cascade="all, delete-orphan" deletes
\* the ingredients of the recipe with it
DeleteRecipe(id) ==
    /\ id \in RowIds(recipes)
    /\ \A s \in Slots : tx[s] = EmptyTx
    /\ recipes' = {r \in recipes : r.id # id}
    /\ ingredients' = {i \in ingredients : i.recipe_id # id}
    /\ tie' \in Ties
    /\ UNCHANGED <<pc, open, req, obj, tx, resp, events>>

\* ---------------------------------------------------------------- concurrent requests

\* Requests overlap, over a storage whose calls do not fail by themselves:
\* what fails is a lookup that finds no row, and a write or a refresh of a
\* row that is gone.  A listing writes nothing, so one page shape is run
\* against the writers: the first MaxLimit recipes.
Next ==
    \/ \E s \in Slots : get_all_recipes(s, 0, MaxLimit, TRUE) /\ UNCHANGED hist
    \/ \E s \in Slots, id \in GetIds :
          get_recipe_select(s, id, TRUE) /\ UNCHANGED hist
    \/ \E s \in Slots : get_recipe_commit(s, TRUE) /\ UNCHANGED hist
    \/ \E s \in Slots : get_recipe_refresh(s, TRUE) /\ UNCHANGED hist
    \/ \E s \in Slots, input \in RecipeInputs :
          create_recipe_rejected(s, input) /\ UNCHANGED hist
    \/ \E s \in Slots, input \in RecipeInputs :
          create_recipe_flush(s, input, TRUE) /\ UNCHANGED hist
    \/ \E s \in Slots : create_recipe_insert(s, TRUE) /\ UNCHANGED hist
    \/ \E s \in Slots : create_recipe_commit(s, TRUE) /\ UNCHANGED hist
    \/ \E s \in Slots : create_recipe_refresh(s, TRUE) /\ UNCHANGED hist
    \/ \E s \in Slots : ScopeCommit(s, TRUE) /\ UNCHANGED hist
    \/ \E s \in Slots : ScopeRollback(s) /\ UNCHANGED hist
    \/ \E s \in Slots : ScopeClose(s) /\ UNCHANGED hist
    \/ \E id \in Ids : DeleteRecipe(id) /\ UNCHANGED hist

Spec == Init /\ [][Next]_vars

\* ---------------------------------------------------------------- one request at a time

\* History of a sequential run.  snap: the store as the request in flight
\* found it.  unread: the recipes created and not fetched since, with the
\* input that made them.  streak: the run of successful detail reads of one
\* recipe that nothing else has interrupted, with the views it started from.
\* listed: the latest listing that has ended, until the store is written.
Starts(s) == pc[s] = "idle" /\ pc'[s] # "idle"
Ends(s) == pc[s] # "idle" /\ pc'[s] = "idle"
Fails(s) == pc[s] # "raised" /\ pc'[s] = "raised"
GetReturns(s) == pc[s] = "get_committed" /\ pc'[s] = "returned"
CreateReturns(s) == pc[s] = "create_committed" /\ pc'[s] = "returned"
ListEnds(s) == Ends(s) /\ req[s].op = "list" /\ resp[s].status = 200

History ==
    /\ snap' = IF \E s \in Slots : Starts(s) THEN Store
               ELSE IF \E s \in Slots : Ends(s) THEN NoSnap
               ELSE snap
    /\ unread' =
          LET kept == {u \in unread :
                          /\ u.id \in RowIds(recipes')
                          /\ \A s \in Slots :
                                Ends(s) /\ req[s].op = "get" => req[s].id # u.id}
          IN  IF \E s \in Slots : CreateReturns(s)
              THEN LET s == CHOOSE s \in Slots : CreateReturns(s)
                   IN  {u \in kept : u.id # obj[s].id}
                          \cup {[id |-> obj[s].id, input |-> req[s].input]}
              ELSE kept
    /\ streak' =
          IF \E s \in Slots : GetReturns(s)
          THEN LET s == CHOOSE s \in Slots : GetReturns(s)
               IN  IF streak.id = obj[s].id
                   THEN [streak EXCEPT !.n = streak.n + 1]
                   ELSE [id |-> obj[s].id, n |-> 1,
                         base |-> RowById(snap.recipes, obj[s].id).views]
          ELSE IF \E s \in Slots : Fails(s) THEN NoStreak
          ELSE IF RowIds(recipes') # RowIds(recipes) THEN NoStreak
          ELSE streak
    /\ listed' =
          IF recipes' # recipes \/ ingredients' # ingredients THEN NoList
          ELSE IF \E s \in Slots : ListEnds(s)
          THEN LET s == CHOOSE s \in Slots : ListEnds(s)
               IN  [skip |-> req[s].skip, limit |-> req[s].limit,
                    items |-> resp[s].items]
          ELSE listed

\* One request at a time, and every storage call may fail.
SeqNext ==
    \/ \E s \in Slots, skip \in 0..MaxSkip, limit \in 0..MaxLimit, ok \in BOOLEAN :
          Quiescent /\ get_all_recipes(s, skip, limit, ok) /\ History
    \/ \E s \in Slots, id \in GetIds, ok \in BOOLEAN :
          Quiescent /\ get_recipe_select(s, id, ok) /\ History
    \/ \E s \in Slots, ok \in BOOLEAN : get_recipe_commit(s, ok) /\ History
    \/ \E s \in Slots, ok \in BOOLEAN : get_recipe_refresh(s, ok) /\ History
    \/ \E s \in Slots, input \in RecipeInputs :
          Quiescent /\ create_recipe_rejected(s, input) /\ History
    \/ \E s \in Slots, input \in RecipeInputs, ok \in BOOLEAN :
          Quiescent /\ create_recipe_flush(s, input, ok) /\ History
    \/ \E s \in Slots, ok \in BOOLEAN : create_recipe_insert(s, ok) /\ History
    \/ \E s \in Slots, ok \in BOOLEAN : create_recipe_commit(s, ok) /\ History
    \/ \E s \in Slots, ok \in BOOLEAN : create_recipe_refresh(s, ok) /\ History
    \/ \E s \in Slots, ok \in BOOLEAN : ScopeCommit(s, ok) /\ History
    \/ \E s \in Slots : ScopeRollback(s) /\ History
    \/ \E s \in Slots : ScopeClose(s) /\ History
    \/ \E id \in Ids : Quiescent /\ DeleteRecipe(id) /\ History

SeqSpec == Init /\ [][SeqNext]_vars

\* ---------------------------------------------------------------- properties

\* the request of slot s has its answer: the handler returned it
Answered(s, op, status) ==
    /\ pc[s] \in {"returned", "closing"}
    /\ req[s].op = op
    /\ resp[s].status = status

\* a precedes b in the order the listing is specified to have
Strictly(a, b) ==
    \/ a.views > b.views
    \/ a.views = b.views /\ a.cooking_time < b.cooking_time

\* the same ingredients by name and quantity, each as many times
SameIngredients(given, got) ==
    /\ Len(given) = Len(got)
    /\ \A k \in 1..Len(given) :
          Cardinality({l \in 1..Len(given) :
                          /\ given[l].name = given[k].name
                          /\ given[l].quantity = given[k].quantity})
            = Cardinality({l \in 1..Len(got) :
                              /\ got[l].name = given[k].name
                              /\ got[l].quantity = given[k].quantity})

\* C1: a detail read that succeeds returns the views stored before it plus
\* one and leaves that value stored; after N successful detail reads of a
\* recipe in a row, with nothing else written, its stored views is the value
\* before the first of them plus N.
ViewIncrement ==
    /\ \A s \in Slots : Answered(s, "get", 200) =>
          LET before == RowById(snap.recipes, req[s].id).views
          IN  /\ resp[s].body.views = before + 1
              /\ RowById(recipes, req[s].id).views = before + 1
    /\ Quiescent /\ streak # NoStreak =>
          /\ streak.id \in RowIds(recipes)
          /\ RowById(recipes, streak.id).views = streak.base + streak.n

\* C1: the second detail read in a row of a recipe has returned
ViewIncrementTwice ==
    \E s \in Slots :
        /\ Answered(s, "get", 200)
        /\ streak # NoStreak /\ streak.n = 2
        /\ resp[s].body.views = streak.base + 2

\* C2: a listing returns min(limit, max(0, n - skip)) recipes of the store,
\* each once, as id, title, cooking_time and views; any two of them stand in
\* the order views descending, then cooking_time ascending; and the k-th of
\* them has at most skip + k - 1 stored recipes strictly before it in that
\* order and at least skip + k not strictly after it.
ListingOrder ==
    \A s \in Slots : Answered(s, "list", 200) =>
        LET items == resp[s].items
            rows == snap.recipes
            skip == req[s].skip
            limit == req[s].limit
            rest == IF Cardinality(rows) > skip
                    THEN Cardinality(rows) - skip ELSE 0
        IN  /\ Len(items) = IF rest < limit THEN rest ELSE limit
            /\ \A k \in 1..Len(items) : \E r \in rows :
                  items[k] = [id |-> r.id, title |-> r.title,
                              cooking_time |-> r.cooking_time,
                              views |-> r.views]
            /\ \A k, l \in 1..Len(items) : k < l =>
                  /\ items[k].id # items[l].id
                  /\ \/ items[k].views > items[l].views
                     \/ /\ items[k].views = items[l].views
                        /\ items[k].cooking_time <= items[l].cooking_time
            /\ \A k \in 1..Len(items) :
                  /\ Cardinality({r \in rows : Strictly(r, items[k])})
                        <= skip + k - 1
                  /\ Cardinality({r \in rows : ~Strictly(items[k], r)})
                        >= skip + k

\* C2: a listing of two recipes where the more viewed one comes first though
\* it takes longer to cook
ListingByViewsFirst ==
    \E s \in Slots :
        /\ Answered(s, "list", 200)
        /\ Len(resp[s].items) = 2
        /\ resp[s].items[1].views > resp[s].items[2].views
        /\ resp[s].items[1].cooking_time > resp[s].items[2].cooking_time

\* the first detail read of a created recipe returns the input's title,
\* cooking_time, description and ingredients, and views = v
RoundTripWith(v) ==
    \A s \in Slots : Answered(s, "get", 200) =>
        \A u \in unread : u.id = req[s].id =>
            /\ resp[s].body.id = u.id
            /\ resp[s].body.title = u.input.title
            /\ resp[s].body.cooking_time = u.input.cooking_time
            /\ resp[s].body.description = u.input.description
            /\ resp[s].body.views = v
            /\ SameIngredients(u.input.ingredients, resp[s].body.ingredients)

\* C3, as stated: the first detail read of a created recipe returns the
\* input's fields and ingredients with views = 0.
RoundTripUnviewed == RoundTripWith(0)

\* C3: the first detail read of a created recipe returns the input's title,
\* cooking_time and description and exactly the input's ingredients, with
\* views = 1: the read counts itself.
RoundTrip == RoundTripWith(1)

\* C3: the first detail read of a recipe created with two ingredients
RoundTripOfTwo ==
    \E s \in Slots : \E u \in unread :
        /\ Answered(s, "get", 200)
        /\ u.id = req[s].id
        /\ Len(u.input.ingredients) = 2
        /\ Len(resp[s].body.ingredients) = 2

\* C4: a creation that failed at an ingredient, after the Recipe row was
\* flushed, leaves the store as the request found it: neither the Recipe row
\* nor any Ingredient row of it is stored, and none is pending.
AtomicCreation ==
    \A s \in Slots :
        /\ pc[s] \in {"raised", "closing"}
        /\ req[s].op = "create"
        /\ resp[s].status = 500
        /\ resp[s].stage = "ingredient"
        => /\ Store = snap
           /\ pc[s] = "closing" => tx[s] = EmptyTx

\* C4: a creation failed at its second ingredient, over a store that is not
\* empty, and has been rolled back
CreationFailedMidway ==
    \E s \in Slots :
        /\ pc[s] = "closing"
        /\ req[s].op = "create"
        /\ resp[s].status = 500
        /\ resp[s].stage = "ingredient"
        /\ resp[s].inserted = 1
        /\ recipes # {}

\* the step is the commit of the increment of the detail read of slot s
IncrementCommits(s) == pc[s] = "get_loaded" /\ pc'[s] = "get_committed"

\* C5, as stated: the stored views of a recipe never decreases, and the
\* commit of every detail read raises it by exactly 1, however the requests
\* interleave.
ViewsCounted ==
    [][\A r \in recipes : \A q \in recipes' : q.id = r.id =>
          /\ q.views >= r.views
          /\ \A s \in Slots : IncrementCommits(s) /\ obj[s].id = r.id =>
                q.views = r.views + 1]_vars

\* C5: the stored views of a recipe changes only at the commit of a detail
\* read of it, and that commit stores the value the request read plus 1: it
\* adds exactly 1 when no other detail read of the recipe committed since
\* the request read.
ViewsWritten ==
    [][/\ \A r \in recipes : \A q \in recipes' :
             q.id = r.id /\ q.views # r.views =>
                \E s \in Slots : /\ IncrementCommits(s)
                                 /\ obj[s].id = r.id
                                 /\ q.views = obj[s].views + 1
       /\ \A s \in Slots : IncrementCommits(s) =>
             /\ obj[s].id \in RowIds(recipes')
             /\ RowById(recipes', obj[s].id).views = obj[s].views + 1]_vars

\* C5: two detail reads of one recipe read the same views and both
\* committed: the recipe has gained one view
TwoReadsOneView ==
    \E s, t \in Slots :
        /\ s # t
        /\ pc[s] = "get_committed" /\ pc[t] = "get_committed"
        /\ obj[s].id = obj[t].id
        /\ obj[s].views = obj[t].views
        /\ obj[s].id \in RowIds(recipes)
        /\ RowById(recipes, obj[s].id).views = obj[s].views

\* C6, as stated: a request that ends in a failure leaves the store as it
\* was when the request started.
FailureLeavesStore ==
    \A s \in Slots :
        pc[s] = "closing" /\ resp[s].status >= 400 => Store = snap

\* what get_db may have done when the scope is left
ScopeOrders ==
    { <<"returned", "commit">>,
      <<"raised", "rollback", "raise">>,
      <<"returned", "commit_failed", "rollback", "raise">> }

\* C7: when the handler returned, get_db commits what is pending and then
\* closes; when an error left the handler or the commit, get_db discards
\* what is pending, raises the same error and then closes; a session is
\* open exactly while its request is in flight.
ScopedSession ==
    [][\A s \in Slots :
          /\ pc[s] = "returned" /\ pc'[s] = "closing" =>
                /\ recipes' = recipes \cup tx[s].recipes
                /\ ingredients' = ingredients \cup tx[s].ingredients
                /\ tx'[s] = EmptyTx
                /\ resp'[s] = resp[s]
          /\ pc[s] = "raised" /\ pc'[s] = "closing" =>
                /\ recipes' = recipes /\ ingredients' = ingredients
                /\ tx'[s] = EmptyTx
                /\ resp'[s] = resp[s]
          /\ pc[s] # "closing" /\ pc'[s] = "closing" =>
                /\ pc[s] \in {"returned", "raised"}
                /\ events'[s] \in ScopeOrders
          /\ pc[s] # "idle" /\ pc'[s] = "idle" =>
                /\ pc[s] = "closing"
                /\ events[s] \in ScopeOrders
                /\ recipes' = recipes /\ ingredients' = ingredients
          /\ open'[s] <=> pc'[s] # "idle"
          /\ pc'[s] = "idle" => tx'[s] = EmptyTx]_vars

\* C7: the commit of get_db failed after the handler returned, and get_db
\* rolled back and raised
CommitFailedInScope ==
    \E s \in Slots :
        /\ pc[s] = "closing"
        /\ open[s]
        /\ events[s] = <<"returned", "commit_failed", "rollback", "raise">>
        /\ resp[s] = Failure("scope_commit")

\* C8: a detail read of an id that no stored recipe has ends with the 404
\* that carries that id (or with the error of the lookup itself), and the
\* store is as the request found it; a 404 is given for no other id.
NotFoundOutcome ==
    \A s \in Slots : pc[s] # "idle" /\ req[s].op = "get" =>
        /\ resp[s].status = 404 =>
              /\ resp[s].id = req[s].id
              /\ req[s].id \notin RowIds(snap.recipes)
              /\ Store = snap
        /\ req[s].id \notin RowIds(snap.recipes) =>
              /\ pc[s] \in {"raised", "closing"}
              /\ \/ resp[s].status = 404
                 \/ resp[s] = Failure("execute")
              /\ Store = snap

\* C8: recipe 1 was deleted, recipe 2 is stored, and a detail read of 1
\* got the 404
NotFoundAfterDelete ==
    \E s \in Slots :
        /\ pc[s] = "closing"
        /\ req[s].op = "get" /\ req[s].id = 1
        /\ resp[s].status = 404
        /\ RowIds(recipes) = {2}

\* C9: every stored ingredient references exactly one stored recipe, ids are
\* unique in both tables, and no row still pending in a transaction is
\* stored.
NoOrphans ==
    /\ \A i \in ingredients :
          Cardinality({r \in recipes : r.id = i.recipe_id}) = 1
    /\ \A r, q \in recipes : r.id = q.id => r = q
    /\ \A i, j \in ingredients : i.id = j.id => i = j
    /\ \A s \in Slots :
          /\ RowIds(tx[s].recipes) \cap RowIds(recipes) = {}
          /\ RowIds(tx[s].ingredients) \cap RowIds(ingredients) = {}

\* C9: two recipes were stored with two ingredients each and the first was
\* deleted: the ingredients of the second are what is left
DeletedWithIngredients ==
    /\ RowIds(recipes) = {2}
    /\ RowIds(ingredients) = {3, 4}

====
